---- MODULE Spec2Model ----
(***************************************************************************)
(* Model of json-tools (krisarmstrong/json-tools): the conversion helpers  *)
(* of json_tools/converters.py and the conversion router of                *)
(* json_tools/__main__.py.                                                 *)
(*                                                                         *)
(* Representation.  A text is a sequence of one-character strings, so that *)
(* str.strip() and the renderings str()/json.dumps() are computed and not  *)
(* assumed.  A hierarchical value (what json.load returns) is a record     *)
(*   [k, text, kids]   with k = "S" (str), "N" (None), "F" (dict, kids =   *)
(* the entries in insertion order) or "L" (list, kids = the items, each    *)
(* under the empty key).  An XML element is [tag, text, children].  Keys   *)
(* and tags are texts.                                                     *)
(***************************************************************************)
EXTENDS Integers, Sequences, FiniteSets, TLC

VARIABLES files, hist, args, val, res

vars == <<files, hist, args, val, res>>

(***************************************************************************)
(* Bounds of the model                                                     *)
(***************************************************************************)
MaxNodes == 4

MaxDepth == 2

MaxElems == 4

MaxRows == 2

MaxDocNodes == 3

MaxSteps == 2

(***************************************************************************)
(* Input alphabet                                                          *)
(***************************************************************************)
Keys == {<<"a">>, <<"b">>}

Whitespace == {" ", "\r", "\n"}

Texts == {<<>>, <<"x">>, <<" ", "x">>}

(***************************************************************************)
(* Hierarchical values                                                     *)
(***************************************************************************)
S(t) == [k |-> "S", text |-> t, kids |-> <<>>]

None == [k |-> "N", text |-> <<>>, kids |-> <<>>]

F(entries) == [k |-> "F", text |-> <<>>, kids |-> entries]

L(items) == [k |-> "L", text |-> <<>>, kids |-> items]

Entry(key, v) == [key |-> key, val |-> v]

NoKey == <<>>

Items(vs) == [i \in 1..Len(vs) |-> Entry(NoKey, vs[i])]

ValuesOf(v) == [i \in 1..Len(v.kids) |-> v.kids[i].val]

KeysOf(v) == [i \in 1..Len(v.kids) |-> v.kids[i].key]

IsDict(v) == v.k = "F"

IsList(v) == v.k = "L"

HasKey(d, key) == \E i \in 1..Len(d.kids) : d.kids[i].key = key

Get(d, key) ==
  IF HasKey(d, key)
  THEN d.kids[CHOOSE i \in 1..Len(d.kids) : d.kids[i].key = key].val
  ELSE None

Elem(tag, text, children) == [tag |-> tag, text |-> text, children |-> children]

(***************************************************************************)
(* Bounded sets of inputs                                                  *)
(***************************************************************************)
InjSeqs(keys, n) ==
  {ks \in [1..n -> keys] : \A i, j \in 1..n : ks[i] = ks[j] => i = j}

\* Values by number of nodes, built bottom-up: vt[m] holds the values with
\* m nodes, st[m + 1] the sequences of values with m nodes in total.
SeqsOfSize(vt, st, n) ==
  UNION {{<<v>> \o vs : v \in vt[m], vs \in st[n - m + 1]} : m \in 1..n}

ValuesFrom(seqs) ==
  {L(Items(vs)) : vs \in seqs}
  \cup UNION {{F([i \in 1..Len(vs) |-> Entry(ks[i], vs[i])]) :
                 ks \in InjSeqs(Keys, Len(vs))} : vs \in seqs}

RECURSIVE SizeTable(_, _, _)
SizeTable(vt, st, n) ==
  IF Len(vt) >= n
  THEN vt
  ELSE LET seqs == SeqsOfSize(vt, st, Len(vt))
       IN  SizeTable(Append(vt, ValuesFrom(seqs)), Append(st, seqs), n)

ValuesUpTo(leaves, n) ==
  LET vt == SizeTable(<<leaves \cup {F(<<>>), L(<<>>)}>>, <<{<<>>}>>, n)
  IN  UNION {vt[m] : m \in 1..n}

TextLeaves == {S(t) : t \in Texts}

\* Values in which every container has exactly two children (a list of two
\* items, or a dict with the keys a and b), by depth.
BinLeaves == {S(<<"x">>), S(<<"y">>)}

Pair(kind, c1, c2) ==
  IF kind = "L"
  THEN L(Items(<<c1, c2>>))
  ELSE F(<<Entry(<<"a">>, c1), Entry(<<"b">>, c2)>>)

RECURSIVE BinaryValues(_)
BinaryValues(d) ==
  IF d = 0
  THEN BinLeaves
  ELSE LET sub == BinaryValues(d - 1)
       IN  sub \cup {Pair(kind, c1, c2) : kind \in {"L", "F"}, c1 \in sub, c2 \in sub}

RootTag == <<"r">>

Root(v) == F(<<Entry(RootTag, v)>>)

\* XML documents by number of elements: root tag r, the other tags drawn
\* from Keys, text on the leaves.
ElemsFrom(seqs) == {Elem(tag, <<>>, es) : tag \in Keys, es \in seqs \ {<<>>}}

RECURSIVE ElemTable(_, _, _)
ElemTable(vt, st, n) ==
  IF Len(vt) >= n
  THEN vt
  ELSE LET seqs == SeqsOfSize(vt, st, Len(vt))
       IN  ElemTable(Append(vt, ElemsFrom(seqs)), Append(st, seqs), n)

DocsUpTo(texts, n) ==
  LET vt == ElemTable(<<{Elem(tag, t, <<>>) : tag \in Keys, t \in texts}>>, <<{<<>>}>>, n)
  IN  {Elem(RootTag, e.text, e.children) : e \in UNION {vt[m] : m \in 1..n}}

\* Rows handed to the tabular encoder: dicts over Keys, in any key order.
CellValues == TextLeaves \cup {None}

RowDicts ==
  UNION {{F([i \in 1..n |-> Entry(ks[i], vs[i])]) :
            ks \in InjSeqs(Keys, n), vs \in [1..n -> CellValues]} :
         n \in 0..Cardinality(Keys)}

(***************************************************************************)
(* str.strip()                                                             *)
(***************************************************************************)
RECURSIVE LStrip(_)
LStrip(t) ==
  IF t # <<>> /\ Head(t) \in Whitespace THEN LStrip(Tail(t)) ELSE t

RECURSIVE RStrip(_)
RStrip(t) ==
  IF t # <<>> /\ t[Len(t)] \in Whitespace
  THEN RStrip(SubSeq(t, 1, Len(t) - 1))
  ELSE t

Strip(t) == RStrip(LStrip(t))

(***************************************************************************)
(* Files.  The content of a file is the document its text denotes: a JSON  *)
(* text is the value it parses to, an XML text its element tree, a CSV     *)
(* text its records; Malformed is a text that neither json.load nor        *)
(* fromstring accepts.                                                     *)
(***************************************************************************)
Absent == [fmt |-> "absent", body |-> <<>>]

Malformed == [fmt |-> "bad", body |-> <<>>]

JsonText(v) == [fmt |-> "json", body |-> v]

XmlText(e) == [fmt |-> "xml", body |-> e]

CsvText(records) == [fmt |-> "csv", body |-> records]

Ok(v) == [st |-> "ok", v |-> v]

Raise(e) == [st |-> e, v |-> None]

is_file(fs, path) == fs[path].fmt # "absent"

\* Path.read_text
read_text(fs, path) ==
  IF is_file(fs, path) THEN Ok(fs[path]) ELSE Raise("FileNotFoundError")

\* Path.write_text, and open(path, "w") followed by the complete write
write_text(fs, path, content) == [fs EXCEPT ![path] = content]

\* xml.etree.ElementTree.fromstring
fromstring(payload) ==
  IF payload.fmt = "xml" THEN Ok(payload.body) ELSE Raise("ParseError")

_read_json(fs, input_path) ==
  IF ~is_file(fs, input_path) THEN Raise("FileNotFoundError")
  ELSE IF fs[input_path].fmt = "json" THEN Ok(fs[input_path].body)
  ELSE Raise("JSONDecodeError")

_write_json(fs, output_path, payload) == write_text(fs, output_path, JsonText(payload))

(***************************************************************************)
(* Markup encode: _dict_to_xml_string / _populate_xml                      *)
(***************************************************************************)
RECURSIVE Flatten(_)
Flatten(ss) == IF ss = <<>> THEN <<>> ELSE Head(ss) \o Flatten(Tail(ss))

\* Mutation of _populate_xml: a list under a key gets one child element,
\* as any other value does.
RECURSIVE _populate_xml_OneChild(_, _)
_populate_xml_OneChild(tag, value) ==
  IF IsDict(value)
  THEN Elem(tag, <<>>,
            [i \in 1..Len(value.kids) |->
               _populate_xml_OneChild(value.kids[i].key, value.kids[i].val)])
  ELSE IF IsList(value)
  THEN Elem(tag, <<>>,
            [j \in 1..Len(value.kids) |-> _populate_xml_OneChild(tag, value.kids[j].val)])
  ELSE Elem(tag, value.text, <<>>)

RECURSIVE _populate_xml(_, _)
_populate_xml(tag, value) ==
  IF IsDict(value)
  THEN Elem(tag, <<>>,
            Flatten([i \in 1..Len(value.kids) |->
              LET key == value.kids[i].key
                  child_value == value.kids[i].val
              IN  IF IsList(child_value)
                  THEN [j \in 1..Len(child_value.kids) |->
                          _populate_xml(key, child_value.kids[j].val)]
                  ELSE <<_populate_xml(key, child_value)>>]))
  ELSE IF IsList(value)
  THEN Elem(tag, <<>>,
            [j \in 1..Len(value.kids) |-> _populate_xml(tag, value.kids[j].val)])
  ELSE Elem(tag, value.text, <<>>)

\* tostring + minidom.parseString + toprettyxml(indent="  "), read back by
\* fromstring: an element with children comes back with indentation
\* whitespace as its text, a leaf keeps its text.
Indentation == <<" ", " ">>

RECURSIVE toprettyxml(_)
toprettyxml(e) ==
  IF e.children = <<>>
  THEN e
  ELSE Elem(e.tag, Indentation,
            [i \in 1..Len(e.children) |-> toprettyxml(e.children[i])])

\* len(payload): number of entries, items or characters; None and numbers
\* have no len().
PyLen(v) == IF v.k = "S" THEN Len(v.text) ELSE Len(v.kids)

\* XML names over the characters of the model: a letter or "_" first,
\* then letters, digits, "." and "-"
NameStartChar == {"a", "b", "r", "x", "y", "_"}

NameChar == NameStartChar \cup {"1", ".", "-"}

IsName(tag) ==
  /\ tag # <<>>
  /\ tag[1] \in NameStartChar
  /\ \A i \in 1..Len(tag) : tag[i] \in NameChar

RECURSIVE WellFormedTags(_)
WellFormedTags(e) ==
  IsName(e.tag) /\ \A i \in 1..Len(e.children) : WellFormedTags(e.children[i])

\* end-of-line handling of an XML parser: a carriage return in the text it
\* reads becomes a line feed, the pair CR LF one line feed
RECURSIVE NormaliseLineEnds(_)
NormaliseLineEnds(t) ==
  IF t = <<>> THEN <<>>
  ELSE IF t[1] = "\r"
  THEN <<"\n">> \o NormaliseLineEnds(IF Len(t) >= 2 /\ t[2] = "\n"
                                      THEN SubSeq(t, 3, Len(t)) ELSE Tail(t))
  ELSE <<t[1]>> \o NormaliseLineEnds(Tail(t))

RECURSIVE NormaliseTexts(_)
NormaliseTexts(e) ==
  Elem(e.tag, NormaliseLineEnds(e.text),
       [i \in 1..Len(e.children) |-> NormaliseTexts(e.children[i])])

\* minidom.parseString(tostring(root)): tostring writes any tag, and a
\* carriage return in text, as it is; the parser refuses a tag that is not
\* a name
parseString(root) ==
  IF WellFormedTags(root) THEN Ok(NormaliseTexts(root)) ELSE Raise("ExpatError")

_dict_to_xml_string(payload) ==
  IF payload.k = "N" THEN Raise("TypeError")
  ELSE IF PyLen(payload) # 1 THEN Raise("ValueError: single root")
  ELSE IF ~IsDict(payload) THEN Raise("AttributeError")
  ELSE LET parsed == parseString(_populate_xml(payload.kids[1].key, payload.kids[1].val))
       IN  IF parsed.st # "ok" THEN Raise(parsed.st)
           ELSE Ok(XmlText(toprettyxml(parsed.v)))

(***************************************************************************)
(* Markup decode: _xml_to_dict / _element_to_data                          *)
(***************************************************************************)
SetKey(entries, key, v) ==
  [i \in 1..Len(entries) |->
     IF entries[i].key = key THEN Entry(key, v) ELSE entries[i]]

\* Mutation of MergeChild: a repeated tag overwrites the earlier value.
MergeChild_Overwrite(result, tag, value) ==
  IF \E i \in 1..Len(result) : result[i].key = tag
  THEN SetKey(result, tag, value)
  ELSE Append(result, Entry(tag, value))

\* Mutation of MergeChild: the second occurrence is put before the first.
MergeChild_Swapped(result, tag, value) ==
  IF \E i \in 1..Len(result) : result[i].key = tag
  THEN LET existing == result[CHOOSE i \in 1..Len(result) : result[i].key = tag].val
       IN  IF IsList(existing)
           THEN SetKey(result, tag, L(Append(existing.kids, Entry(NoKey, value))))
           ELSE SetKey(result, tag, L(Items(<<value, existing>>)))
  ELSE Append(result, Entry(tag, value))

MergeChild(result, tag, value) ==
  IF \E i \in 1..Len(result) : result[i].key = tag
  THEN LET existing == result[CHOOSE i \in 1..Len(result) : result[i].key = tag].val
       IN  IF IsList(existing)
           THEN SetKey(result, tag, L(Append(existing.kids, Entry(NoKey, value))))
           ELSE SetKey(result, tag, L(Items(<<existing, value>>)))
  ELSE Append(result, Entry(tag, value))

RECURSIVE _element_to_data(_), MergeChildren(_, _, _)
_element_to_data(element) ==
  IF element.children = <<>>
  THEN S(Strip(element.text))
  ELSE F(MergeChildren(<<>>, element.children, 1))

MergeChildren(result, children, i) ==
  IF i > Len(children)
  THEN result
  ELSE MergeChildren(
         MergeChild(result, children[i].tag, _element_to_data(children[i])),
         children, i + 1)

_xml_to_dict(xml_payload) ==
  LET root == fromstring(xml_payload)
  IN  IF root.st # "ok" THEN Raise(root.st)
      ELSE Ok(F(<<Entry(root.v.tag, _element_to_data(root.v))>>))

(***************************************************************************)
(* Row extractor: _follow_row_path / _find_first_row_list /                *)
(* _ensure_list_of_dicts                                                   *)
(***************************************************************************)
\* Mutation of _ensure_list_of_dicts: an empty list is accepted as rows.
_ensure_list_of_dicts_AllowEmpty(value) ==
  IF \E i \in 1..Len(value.kids) : ~IsDict(value.kids[i].val) THEN None
  ELSE value

\* Mutation of _ensure_list_of_dicts: the items that are dicts are kept.
_ensure_list_of_dicts_Partial(value) ==
  LET Dict(entry) == IsDict(entry.val)
      rows == SelectSeq(value.kids, Dict)
  IN  IF rows = <<>> THEN None ELSE L(rows)

\* None when an item is not a dict or the list is empty, else the list.
_ensure_list_of_dicts(value) ==
  IF \E i \in 1..Len(value.kids) : ~IsDict(value.kids[i].val) THEN None
  ELSE IF value.kids = <<>> THEN None
  ELSE value

RECURSIVE _find_first_row_list(_), FirstRows(_, _)
_find_first_row_list(obj) ==
  IF IsList(obj) THEN _ensure_list_of_dicts(obj)
  ELSE IF IsDict(obj) THEN FirstRows(obj.kids, 1)
  ELSE None

\* the loop over obj.values()
FirstRows(kids, i) ==
  IF i > Len(kids)
  THEN None
  ELSE LET rows == _find_first_row_list(kids[i].val)
       IN  IF rows # None THEN rows ELSE FirstRows(kids, i + 1)

RECURSIVE FollowParts(_, _, _)
FollowParts(current, parts, i) ==
  IF i > Len(parts) THEN current
  ELSE LET next == IF IsDict(current) THEN Get(current, parts[i]) ELSE None
       IN  IF next = None THEN None ELSE FollowParts(next, parts, i + 1)

\* str.split(".")
RECURSIVE SplitFrom(_, _, _, _)
SplitFrom(t, i, part, parts) ==
  IF i > Len(t) THEN Append(parts, part)
  ELSE IF t[i] = "." THEN SplitFrom(t, i + 1, <<>>, Append(parts, part))
  ELSE SplitFrom(t, i + 1, Append(part, t[i]), parts)

Split(t) == SplitFrom(t, 1, <<>>, <<>>)

\* Mutation of _follow_row_path: a single object at the path is not a row.
_follow_row_path_ListOnly(data, dotted_path) ==
  LET current == FollowParts(data, Split(dotted_path), 1)
  IN  IF current = None THEN None
      ELSE IF IsList(current) THEN _ensure_list_of_dicts(current)
      ELSE None

_follow_row_path(data, dotted_path) ==
  LET current == FollowParts(data, Split(dotted_path), 1)
  IN  IF current = None THEN None
      ELSE IF IsList(current) THEN _ensure_list_of_dicts(current)
      ELSE IF IsDict(current) THEN _ensure_list_of_dicts(L(Items(<<current>>)))
      ELSE None

(***************************************************************************)
(* Renderings: json.dumps(value, ensure_ascii=False), str(value)           *)
(***************************************************************************)
RECURSIVE Join(_, _)
Join(ss, sep) ==
  IF ss = <<>> THEN <<>>
  ELSE IF Len(ss) = 1 THEN ss[1]
  ELSE ss[1] \o sep \o Join(Tail(ss), sep)

RECURSIVE Render(_, _, _)
Render(v, quote, null) ==
  IF v.k = "S" THEN <<quote>> \o v.text \o <<quote>>
  ELSE IF v.k = "N" THEN null
  ELSE IF v.k = "L"
  THEN <<"[">> \o Join([i \in 1..Len(v.kids) |-> Render(v.kids[i].val, quote, null)],
                       <<",", " ">>) \o <<"]">>
  ELSE <<"{">> \o Join([i \in 1..Len(v.kids) |->
                          <<quote>> \o v.kids[i].key \o <<quote, ":", " ">>
                          \o Render(v.kids[i].val, quote, null)],
                       <<",", " ">>) \o <<"}">>

JsonDumps(v) == Render(v, "\"", <<"n", "u", "l", "l">>)

PyStr(v) == IF v.k = "S" THEN v.text ELSE Render(v, "'", <<"N", "o", "n", "e">>)

_coerce_value(value) ==
  IF IsList(value) \/ IsDict(value) THEN S(JsonDumps(value))
  ELSE IF value = None THEN S(<<>>)
  ELSE S(PyStr(value))

_normalise_row(row) ==
  F([i \in 1..Len(row.kids) |-> Entry(row.kids[i].key, _coerce_value(row.kids[i].val))])

(***************************************************************************)
(* Tabular codec: _read_csv_rows / _write_csv / _collect_fieldnames        *)
(* A CSV text is the sequence of its records, each a sequence of cells.    *)
(***************************************************************************)
RECURSIVE AppendNew(_, _, _)
AppendNew(fieldnames, keys, i) ==
  IF i > Len(keys) THEN fieldnames
  ELSE AppendNew(IF \E j \in 1..Len(fieldnames) : fieldnames[j] = keys[i]
                 THEN fieldnames
                 ELSE Append(fieldnames, keys[i]),
                 keys, i + 1)

RECURSIVE CollectFrom(_, _, _)
CollectFrom(fieldnames, rows, i) ==
  IF i > Len(rows) THEN fieldnames
  ELSE CollectFrom(AppendNew(fieldnames, KeysOf(rows[i]), 1), rows, i + 1)

\* rows: a sequence of dicts
_collect_fieldnames(rows) == CollectFrom(<<>>, rows, 1)

\* csv.writer: None is written as the empty field, anything else as str()
CsvCell(v) == IF v = None THEN <<>> ELSE PyStr(v)

\* Mutation of GetOrEmpty: an absent field repeats the row's first value.
GetOrEmpty_First(row, key) ==
  IF HasKey(row, key) THEN Get(row, key)
  ELSE IF row.kids # <<>> THEN row.kids[1].val ELSE S(<<>>)

\* row.get(key, "")
GetOrEmpty(row, key) == IF HasKey(row, key) THEN Get(row, key) ELSE S(<<>>)

\* the records written by writeheader and the writerow loop
CsvRecords(rows) ==
  LET fieldnames == _collect_fieldnames(rows)
  IN  <<fieldnames>>
      \o [i \in 1..Len(rows) |->
            [j \in 1..Len(fieldnames) |-> CsvCell(GetOrEmpty(rows[i], fieldnames[j]))]]

\* rows: a list of dicts
_write_csv(fs, output_path, rows) ==
  write_text(fs, output_path, CsvText(CsvRecords(ValuesOf(rows))))

\* csv.DictReader: the first record names the fields, blank records are
\* skipped, a short record is filled with None.  (Records longer than the
\* header do not occur in the inputs of this model.)
SetOrAppend(entries, key, v) ==
  IF \E i \in 1..Len(entries) : entries[i].key = key
  THEN SetKey(entries, key, v)
  ELSE Append(entries, Entry(key, v))

RECURSIVE ZipRow(_, _, _, _)
ZipRow(entries, fieldnames, record, i) ==
  IF i > Len(fieldnames) THEN entries
  ELSE ZipRow(SetOrAppend(entries, fieldnames[i],
                          IF i <= Len(record) THEN S(record[i]) ELSE None),
              fieldnames, record, i + 1)

DictReader(records) ==
  IF records = <<>> THEN <<>>
  ELSE LET fieldnames == Head(records)
           NotBlank(r) == r # <<>>
           data == SelectSeq(Tail(records), NotBlank)
       IN  [i \in 1..Len(data) |-> F(ZipRow(<<>>, fieldnames, data[i], 1))]

_read_csv_rows(fs, input_path) ==
  IF ~is_file(fs, input_path) THEN Raise("FileNotFoundError")
  ELSE Ok(L(Items(DictReader(fs[input_path].body))))

(***************************************************************************)
(* The converters.  Each returns the outcome and the file system it        *)
(* leaves, the write standing where the code has it.                       *)
(***************************************************************************)
Done(st, fs) == [st |-> st, fs |-> fs]

convert_csv_to_json(fs, input_path, output_path) ==
  LET rows == _read_csv_rows(fs, input_path)
  IN  IF rows.st # "ok" THEN Done(rows.st, fs)
      ELSE Done("ok", _write_json(fs, output_path, rows.v))

convert_json_to_xml(fs, input_path, output_path) ==
  LET json_data == _read_json(fs, input_path)
  IN  IF json_data.st # "ok" THEN Done(json_data.st, fs)
      ELSE LET xml_data == _dict_to_xml_string(json_data.v)
           IN  IF xml_data.st # "ok" THEN Done(xml_data.st, fs)
               ELSE Done("ok", write_text(fs, output_path, xml_data.v))

convert_json_to_csv(fs, input_path, output_path) ==
  LET json_data == _read_json(fs, input_path)
  IN  IF json_data.st # "ok" THEN Done(json_data.st, fs)
      ELSE IF ~IsList(json_data.v)
              \/ \E i \in 1..Len(json_data.v.kids) : ~IsDict(json_data.v.kids[i].val)
      THEN Done("ValueError: list of objects", fs)
      ELSE Done("ok", _write_csv(fs, output_path, json_data.v))

convert_xml_to_json(fs, input_path, output_path) ==
  LET xml_payload == read_text(fs, input_path)
  IN  IF xml_payload.st # "ok" THEN Done(xml_payload.st, fs)
      ELSE LET json_data == _xml_to_dict(xml_payload.v)
           IN  IF json_data.st # "ok" THEN Done(json_data.st, fs)
               ELSE Done("ok", _write_json(fs, output_path, json_data.v))

convert_csv_to_xml(fs, input_path, output_path, root_element, row_element) ==
  LET rows == _read_csv_rows(fs, input_path)
  IN  IF rows.st # "ok" THEN Done(rows.st, fs)
      ELSE LET payload == F(<<Entry(root_element, F(<<Entry(row_element, rows.v)>>))>>)
               xml_data == _dict_to_xml_string(payload)
           IN  IF xml_data.st # "ok" THEN Done(xml_data.st, fs)
               ELSE Done("ok", write_text(fs, output_path, xml_data.v))

\* row_path: a text, empty when the option is not given
\* Mutation of convert_xml_to_csv: the output is opened for writing before
\* the rows are located.
convert_xml_to_csv_WriteFirst(fs, input_path, output_path, row_path) ==
  LET xml_payload == read_text(fs, input_path)
  IN  IF xml_payload.st # "ok" THEN Done(xml_payload.st, fs)
      ELSE LET xml_data == _xml_to_dict(xml_payload.v)
               opened == write_text(fs, output_path, CsvText(<<>>))
           IN  IF xml_data.st # "ok" THEN Done(xml_data.st, fs)
               ELSE LET rows == IF row_path # <<>>
                                THEN _follow_row_path(xml_data.v, row_path)
                                ELSE _find_first_row_list(xml_data.v)
                    IN  IF rows = None THEN Done("ValueError: rows not found", opened)
                        ELSE LET normalized_rows ==
                                   L(Items([i \in 1..Len(rows.kids) |->
                                              _normalise_row(rows.kids[i].val)]))
                             IN  Done("ok", _write_csv(opened, output_path, normalized_rows))

convert_xml_to_csv(fs, input_path, output_path, row_path) ==
  LET xml_payload == read_text(fs, input_path)
  IN  IF xml_payload.st # "ok" THEN Done(xml_payload.st, fs)
      ELSE LET xml_data == _xml_to_dict(xml_payload.v)
           IN  IF xml_data.st # "ok" THEN Done(xml_data.st, fs)
               ELSE LET rows == IF row_path # <<>>
                                THEN _follow_row_path(xml_data.v, row_path)
                                ELSE _find_first_row_list(xml_data.v)
                    IN  IF rows = None THEN Done("ValueError: rows not found", fs)
                        ELSE LET normalized_rows ==
                                   L(Items([i \in 1..Len(rows.kids) |->
                                              _normalise_row(rows.kids[i].val)]))
                             IN  Done("ok", _write_csv(fs, output_path, normalized_rows))

convert_csv_to_csv(fs, input_path, output_path) ==
  LET rows == _read_csv_rows(fs, input_path)
  IN  IF rows.st # "ok" THEN Done(rows.st, fs)
      ELSE Done("ok", _write_csv(fs, output_path, rows.v))

\* Mutation of convert_json_to_json: the text is copied without parsing.
convert_json_to_json_Verbatim(fs, input_path, output_path) ==
  LET payload == read_text(fs, input_path)
  IN  IF payload.st # "ok" THEN Done(payload.st, fs)
      ELSE Done("ok", write_text(fs, output_path, payload.v))

convert_json_to_json(fs, input_path, output_path) ==
  LET data == _read_json(fs, input_path)
  IN  IF data.st # "ok" THEN Done(data.st, fs)
      ELSE Done("ok", _write_json(fs, output_path, data.v))

convert_xml_to_xml(fs, input_path, output_path) ==
  LET payload == read_text(fs, input_path)
  IN  IF payload.st # "ok" THEN Done(payload.st, fs)
      ELSE Done("ok", write_text(fs, output_path, payload.v))

NoRes == [op |-> "none", st |-> "none", v |-> None]

Applied(op, r) == [op |-> op, st |-> r.st, v |-> r.v]

Input(kind, v) == [kind |-> kind, v |-> v]

(***************************************************************************)
(* Conversion specification: a pipeline of at most MaxSteps conversions,   *)
(* the n-th reading file n - 1 and writing file n, run while the previous  *)
(* one succeeded.                                                          *)
(***************************************************************************)
(***************************************************************************)
(* Pretty-printer: json_tools/json_ops.py                                  *)
(***************************************************************************)
\* json_ops._read_json
json_ops_read_json(fs, path) ==
  IF ~is_file(fs, path) THEN Raise("FileNotFoundError")
  ELSE IF fs[path].fmt = "json" THEN Ok(fs[path].body)
  ELSE Raise("JSONDecodeError")

\* json.dump(payload, destination, indent=indent) into the opened output
pretty_print_json(fs, input_path, output_path) ==
  LET payload == json_ops_read_json(fs, input_path)
  IN  IF payload.st # "ok" THEN Done(payload.st, fs)
      ELSE Done("ok", write_text(fs, output_path, JsonText(payload.v)))

CsvTexts ==
  UNION {{CsvText(<<header>> \o rows) : rows \in [1..n -> [1..Len(header) -> Texts]]} :
         n \in 0..MaxRows, header \in UNION {InjSeqs(Keys, c) : c \in 1..Cardinality(Keys)}}

JsonTexts == {JsonText(v) : v \in ValuesUpTo(TextLeaves \cup {None}, MaxDocNodes)}

\* leaf texts of the XML input files
DocTexts == {<<>>, <<"x">>}

XmlTexts == {XmlText(e) : e \in DocsUpTo(DocTexts, MaxElems)}

NonNames == {<<"1">>}

RowElements == Keys \cup {<<"a", ".", "b">>} \cup NonNames

Dotted(root, row) == root \o <<".">> \o row

RowPaths == {<<>>} \cup {Dotted(RootTag, row) : row \in RowElements \ NonNames}

NoOpts == [root_element |-> <<>>, row_element |-> <<>>, row_path |-> <<>>]

\* File 0 is the input; call n reads file n - 1 and writes file n. The
\* odd output paths do not exist yet, the even ones hold an earlier file.
Init ==
  /\ \E content \in {Absent, Malformed} \cup JsonTexts \cup XmlTexts \cup CsvTexts :
       files = [i \in 0..MaxSteps |->
                  IF i = 0 THEN content ELSE IF i % 2 = 1 THEN Absent ELSE Malformed]
  /\ hist = <<>>
  /\ args = <<>>
  /\ val = <<>>
  /\ res = NoRes

CanStep ==
  /\ Len(hist) < MaxSteps
  /\ hist # <<>> => hist[Len(hist)].st = "ok"

\* csv.DictReader is modelled on CSV text only
ReadsCsv == files[Len(hist)].fmt \in {"csv", "absent"}

Step(conv, opts, done) ==
  /\ files' = done.fs
  /\ hist' = Append(hist, [conv |-> conv, st |-> done.st, opts |-> opts])
  /\ UNCHANGED <<args, val, res>>

ConvertCsvToJson ==
  /\ CanStep /\ ReadsCsv
  /\ Step("csv_to_json", NoOpts, convert_csv_to_json(files, Len(hist), Len(hist) + 1))

ConvertJsonToXml ==
  /\ CanStep
  /\ Step("json_to_xml", NoOpts, convert_json_to_xml(files, Len(hist), Len(hist) + 1))

ConvertJsonToCsv ==
  /\ CanStep
  /\ Step("json_to_csv", NoOpts, convert_json_to_csv(files, Len(hist), Len(hist) + 1))

ConvertXmlToJson ==
  /\ CanStep
  /\ Step("xml_to_json", NoOpts, convert_xml_to_json(files, Len(hist), Len(hist) + 1))

ConvertCsvToXml ==
  /\ CanStep /\ ReadsCsv
  /\ \E row_element \in RowElements :
       Step("csv_to_xml",
            [NoOpts EXCEPT !.root_element = RootTag, !.row_element = row_element],
            convert_csv_to_xml(files, Len(hist), Len(hist) + 1, RootTag, row_element))

ConvertXmlToCsv ==
  /\ CanStep
  /\ \E row_path \in RowPaths :
       Step("xml_to_csv", [NoOpts EXCEPT !.row_path = row_path],
            convert_xml_to_csv(files, Len(hist), Len(hist) + 1, row_path))

ConvertCsvToCsv ==
  /\ CanStep /\ ReadsCsv
  /\ Step("csv_to_csv", NoOpts, convert_csv_to_csv(files, Len(hist), Len(hist) + 1))

ConvertJsonToJson ==
  /\ CanStep
  /\ Step("json_to_json", NoOpts, convert_json_to_json(files, Len(hist), Len(hist) + 1))

ConvertXmlToXml ==
  /\ CanStep
  /\ Step("xml_to_xml", NoOpts, convert_xml_to_xml(files, Len(hist), Len(hist) + 1))

PrettyPrintJson ==
  /\ CanStep
  /\ Step("pretty", NoOpts, pretty_print_json(files, Len(hist), Len(hist) + 1))

Next ==
  \/ ConvertCsvToJson
  \/ ConvertJsonToXml
  \/ ConvertJsonToCsv
  \/ ConvertXmlToJson
  \/ ConvertCsvToXml
  \/ ConvertXmlToCsv
  \/ ConvertCsvToCsv
  \/ ConvertJsonToJson
  \/ ConvertXmlToXml
  \/ PrettyPrintJson

Spec == Init /\ [][Next]_vars


(***************************************************************************)
(* The conversion router: json_tools/__main__.py                           *)
(***************************************************************************)
FORMATS == {"csv", "json", "xml"}

\* EXTENSION_MAP.get(path.suffix.lower()); "" stands for None
EXTENSION_MAP(suffix) ==
  CASE suffix = ".csv" -> "csv"
    [] suffix = ".tsv" -> "csv"
    [] suffix = ".json" -> "json"
    [] suffix = ".ndjson" -> "json"
    [] suffix = ".xml" -> "xml"
    [] OTHER -> ""

_infer_format(suffix, allow_missing) ==
  LET fmt == EXTENSION_MAP(suffix)
  IN  IF fmt = "" /\ ~allow_missing THEN "" ELSE fmt

Called(conv, done) == [conv |-> conv, st |-> done.st, fs |-> done.fs]

HandlerPairs ==
  {<<"csv", "json">>, <<"csv", "xml">>, <<"csv", "csv">>,
   <<"json", "csv">>, <<"json", "xml">>, <<"json", "json">>,
   <<"xml", "json">>, <<"xml", "csv">>, <<"xml", "xml">>}

\* Mutation of _CONVERSION_HANDLERS: two entries of the table are exchanged.
_CONVERSION_HANDLERS_Exchanged(pair, fs, a) ==
  CASE pair = <<"csv", "json">> ->
         Called("csv_to_json", convert_csv_to_json(fs, a.input, a.output))
    [] pair = <<"csv", "xml">> ->
         Called("csv_to_xml",
                convert_csv_to_xml(fs, a.input, a.output, a.root_element, a.row_element))
    [] pair = <<"csv", "csv">> ->
         Called("csv_to_csv", convert_csv_to_csv(fs, a.input, a.output))
    [] pair = <<"json", "csv">> ->
         Called("json_to_xml", convert_json_to_xml(fs, a.input, a.output))
    [] pair = <<"json", "xml">> ->
         Called("json_to_csv", convert_json_to_csv(fs, a.input, a.output))
    [] pair = <<"json", "json">> ->
         Called("json_to_json", convert_json_to_json(fs, a.input, a.output))
    [] pair = <<"xml", "json">> ->
         Called("xml_to_json", convert_xml_to_json(fs, a.input, a.output))
    [] pair = <<"xml", "csv">> ->
         Called("xml_to_csv", convert_xml_to_csv(fs, a.input, a.output, a.row_path))
    [] pair = <<"xml", "xml">> ->
         Called("xml_to_xml", convert_xml_to_xml(fs, a.input, a.output))

\* the handler stored under pair, applied to args
_CONVERSION_HANDLERS(pair, fs, a) ==
  CASE pair = <<"csv", "json">> ->
         Called("csv_to_json", convert_csv_to_json(fs, a.input, a.output))
    [] pair = <<"csv", "xml">> ->
         Called("csv_to_xml",
                convert_csv_to_xml(fs, a.input, a.output, a.root_element, a.row_element))
    [] pair = <<"csv", "csv">> ->
         Called("csv_to_csv", convert_csv_to_csv(fs, a.input, a.output))
    [] pair = <<"json", "csv">> ->
         Called("json_to_csv", convert_json_to_csv(fs, a.input, a.output))
    [] pair = <<"json", "xml">> ->
         Called("json_to_xml", convert_json_to_xml(fs, a.input, a.output))
    [] pair = <<"json", "json">> ->
         Called("json_to_json", convert_json_to_json(fs, a.input, a.output))
    [] pair = <<"xml", "json">> ->
         Called("xml_to_json", convert_xml_to_json(fs, a.input, a.output))
    [] pair = <<"xml", "csv">> ->
         Called("xml_to_csv", convert_xml_to_csv(fs, a.input, a.output, a.row_path))
    [] pair = <<"xml", "xml">> ->
         Called("xml_to_xml", convert_xml_to_xml(fs, a.input, a.output))

NotCalled(error, fs) == [conv |-> "none", st |-> error, fs |-> fs]

SourceFormat(a) ==
  IF a.source_format # "" THEN a.source_format
  ELSE _infer_format(a.input_suffix, FALSE)

TargetFormat(a) ==
  IF a.target_format # "" THEN a.target_format
  ELSE _infer_format(a.output_suffix, TRUE)

_handle_convert(fs, a) ==
  LET source_format == SourceFormat(a)
      target_format == TargetFormat(a)
      pair == <<source_format, target_format>>
  IN  IF source_format = "" THEN NotCalled("ValueError: unable to infer input format", fs)
      ELSE IF target_format = "" THEN NotCalled("ValueError: unable to infer output format", fs)
      ELSE IF pair \notin HandlerPairs THEN NotCalled("ValueError: unsupported conversion", fs)
      ELSE _CONVERSION_HANDLERS(pair, fs, a)

(***************************************************************************)
(* Router specification: one call of _handle_convert on files 0 and 1      *)
(***************************************************************************)
FormatArgs == FORMATS \cup {"", "yaml"}

Suffixes == {".csv", ".tsv", ".json", ".ndjson", ".xml", ".txt"}

SampleTexts ==
  {Absent, Malformed,
   CsvText(<< <<(<<"a">>), (<<"b">>)>>, <<(<<"x">>), <<>> >> >>),
   JsonText(L(Items(<<F(<<Entry(<<"a">>, S(<<"x">>))>>)>>))),
   JsonText(Root(F(<<Entry(<<"a">>, S(<<"x">>))>>))),
   XmlText(Elem(RootTag, <<>>,
                <<Elem(<<"a">>, <<>>, <<Elem(<<"b">>, <<"x">>, <<>>)>>),
                  Elem(<<"a">>, <<>>, <<Elem(<<"b">>, <<"y">>, <<>>)>>)>>))}

InitCli ==
  /\ \E content \in SampleTexts, stale \in {Absent, Malformed} :
       files = [i \in 0..1 |-> IF i = 0 THEN content ELSE stale]
  /\ \E source_format \in FormatArgs, target_format \in FormatArgs,
        input_suffix \in Suffixes, output_suffix \in Suffixes,
        row_path \in {<<>>, Dotted(RootTag, <<"a">>)} :
       args = [input |-> 0, output |-> 1,
               input_suffix |-> input_suffix, output_suffix |-> output_suffix,
               source_format |-> source_format, target_format |-> target_format,
               root_element |-> RootTag, row_element |-> <<"a">>,
               row_path |-> row_path]
  /\ hist = <<>>
  /\ val = <<>>
  /\ res = NoRes

HandleConvert ==
  /\ hist = <<>>
  /\ SourceFormat(args) = "csv" => files[args.input].fmt \in {"csv", "absent"}
  /\ LET called == _handle_convert(files, args)
     IN  /\ files' = called.fs
         /\ hist' = <<[conv |-> called.conv, st |-> called.st,
                       opts |-> [root_element |-> args.root_element,
                                 row_element |-> args.row_element,
                                 row_path |-> args.row_path]]>>
  /\ UNCHANGED <<args, val, res>>

NextCli == HandleConvert

SpecCli == InitCli /\ [][NextCli]_vars

(***************************************************************************)
\* texts with a carriage return, as a character reference brings into a
\* document and a JSON string into a value
CrTexts == {<<"x", "\r", "y">>, <<"\r", "x">>}

(***************************************************************************)
(* Pure-function specification: an input is drawn, one helper is applied   *)
(***************************************************************************)
InitFn ==
  /\ \/ \E v \in ValuesUpTo(TextLeaves, MaxNodes) :
          val \in {Input("value", v), Input("value", Root(v))}
     \/ \E kind \in {"L", "F"} :
          \E c1 \in BinaryValues(MaxDepth - 1), c2 \in BinaryValues(MaxDepth - 1) :
             \E w \in {Pair(kind, c1, c2)} :
                val \in {Input("value", Root(w)), Input("value", Root(F(<<Entry(<<"a">>, w)>>)))}
     \/ \E key \in NonNames, v \in ValuesUpTo(TextLeaves, 1) :
          \E w \in {F(<<Entry(key, v)>>)} :
             val \in {Input("value", w), Input("value", Root(w))}
     \/ \E t \in CrTexts :
          val \in {Input("value", Root(S(t))),
                   Input("doc", Elem(RootTag, <<>>, <<Elem(<<"a">>, t, <<>>)>>))}
     \/ \E e \in DocsUpTo(Texts, MaxElems) : val = Input("doc", e)
     \/ \E n \in 0..MaxRows : \E rows \in [1..n -> RowDicts] : val = Input("rows", rows)
  /\ res = NoRes
  /\ files = <<>>
  /\ hist = <<>>
  /\ args = <<>>

\* _xml_to_dict(_dict_to_xml_string(val))
MarkupRoundTrip ==
  /\ res.op = "none"
  /\ val.kind = "value"
  /\ LET x == _dict_to_xml_string(val.v)
     IN  res' = Applied("roundtrip",
                        IF x.st = "ok" THEN _xml_to_dict(x.v) ELSE Raise(x.st))
  /\ UNCHANGED <<files, hist, args, val>>

\* _xml_to_dict(val)
XmlToDict ==
  /\ res.op = "none"
  /\ val.kind = "doc"
  /\ res' = Applied("decode", _xml_to_dict(XmlText(val.v)))
  /\ UNCHANGED <<files, hist, args, val>>

\* _xml_to_dict(_dict_to_xml_string(_xml_to_dict(val)))
DecodeEncodeDecode ==
  /\ res.op = "none"
  /\ val.kind = "doc"
  /\ LET d == _xml_to_dict(XmlText(val.v))
         x == IF d.st = "ok" THEN _dict_to_xml_string(d.v) ELSE Raise(d.st)
     IN  res' = Applied("redecode",
                        IF x.st = "ok" THEN _xml_to_dict(x.v) ELSE Raise(x.st))
  /\ UNCHANGED <<files, hist, args, val>>

\* _find_first_row_list(val)
FindFirstRowList ==
  /\ res.op = "none"
  /\ val.kind = "value"
  /\ res' = Applied("find", Ok(_find_first_row_list(val.v)))
  /\ UNCHANGED <<files, hist, args, val>>

\* the records _write_csv writes for the rows val
WriteCsv ==
  /\ res.op = "none"
  /\ val.kind = "rows"
  /\ res' = Applied("write_csv", Ok(CsvRecords(val.v)))
  /\ UNCHANGED <<files, hist, args, val>>

NextFn == MarkupRoundTrip \/ XmlToDict \/ DecodeEncodeDecode \/ FindFirstRowList \/ WriteCsv

SpecFn == InitFn /\ [][NextFn]_vars

(***************************************************************************)
(* Shapes of values                                                        *)
(***************************************************************************)
RECURSIVE Sub(_)
Sub(v) == {v} \cup UNION {Sub(v.kids[i].val) : i \in 1..Len(v.kids)}

SingleRoot(v) == IsDict(v) /\ Len(v.kids) = 1

OnlyText(v) == \A w \in Sub(v) : w.k \in {"S", "F", "L"}

SeqsAtLeastTwo(v) == \A w \in Sub(v) : IsList(w) => Len(w.kids) >= 2

NoEmptyDict(v) == \A w \in Sub(v) : IsDict(w) => Len(w.kids) >= 1

NoSeqInSeq(v) ==
  \A w \in Sub(v) : IsList(w) => \A i \in 1..Len(w.kids) : ~IsList(w.kids[i].val)

TextsStripped(v) == \A w \in Sub(v) : w.k = "S" => Strip(w.text) = w.text

KeysAreNames(v) ==
  \A w \in Sub(v) : IsDict(w) => \A i \in 1..Len(w.kids) : IsName(w.kids[i].key)

NoCarriageReturn(v) ==
  \A w \in Sub(v) : w.k = "S" => \A i \in 1..Len(w.text) : w.text[i] # "\r"

RoundTripped == res.op = "roundtrip" /\ res.st = "ok" /\ res.v = val.v

(***************************************************************************)
(* C1 -- markup round trip                                                 *)
(***************************************************************************)
C1Pre ==
  /\ val.kind = "value"
  /\ res.op = "roundtrip"
  /\ SingleRoot(val.v)
  /\ OnlyText(val.v)
  /\ SeqsAtLeastTwo(val.v)

\* C1 as stated: every single-root value built from text scalars, field
\* maps and sequences of at least 2 items is returned unchanged by encode
\* followed by decode.
C1_Original == C1Pre => RoundTripped

\* C1 amended: the round trip returns the value unchanged when, in addition,
\* every key is an XML name, no field map is empty, no sequence is the
\* root's value or an item of a sequence, and no text has leading or
\* trailing whitespace or holds a carriage return.
C1_RoundTrip ==
  ( /\ C1Pre
    /\ NoCarriageReturn(val.v)
    /\ KeysAreNames(val.v)
    /\ NoEmptyDict(val.v)
    /\ ~IsList(val.v.kids[1].val)
    /\ NoSeqInSeq(val.v)
    /\ TextsStripped(val.v) ) => RoundTripped

C1_Witness ==
  /\ C1Pre
  /\ NoEmptyDict(val.v)
  /\ ~IsList(val.v.kids[1].val)
  /\ NoSeqInSeq(val.v)
  /\ TextsStripped(val.v)
  /\ \E w \in Sub(val.v) : IsList(w) /\ \E i \in 1..Len(w.kids) : IsDict(w.kids[i].val)
  /\ RoundTripped

(***************************************************************************)
(* C4 -- heuristic row search                                              *)
(***************************************************************************)
Qualifies(w) ==
  /\ IsList(w)
  /\ w.kids # <<>>
  /\ \A i \in 1..Len(w.kids) : IsDict(w.kids[i].val)

\* depth-first pre-order over the whole value
RECURSIVE Preorder(_)
Preorder(v) ==
  <<v>> \o Flatten([i \in 1..Len(v.kids) |-> Preorder(v.kids[i].val)])

\* depth-first pre-order that descends through field maps only
RECURSIVE PreorderThroughDicts(_)
PreorderThroughDicts(v) ==
  <<v>> \o (IF IsDict(v)
            THEN Flatten([i \in 1..Len(v.kids) |-> PreorderThroughDicts(v.kids[i].val)])
            ELSE <<>>)

FirstQualifying(order) ==
  IF \E i \in 1..Len(order) : Qualifies(order[i])
  THEN order[CHOOSE i \in 1..Len(order) :
               Qualifies(order[i]) /\ \A j \in 1..(i - 1) : ~Qualifies(order[j])]
  ELSE None

Searched == val.kind = "value" /\ res.op = "find"

\* C4 as stated: the search returns the first qualifying sequence of the
\* pre-order traversal of the whole value, and fails (None) only if no
\* qualifying sequence exists anywhere in the tree.
C4_Original == Searched => res.v = FirstQualifying(Preorder(val.v))

\* C4 amended: the traversal descends through field maps only (the items of
\* a sequence are never searched); the search returns the first qualifying
\* sequence of that traversal, a rejected sequence does not end it, and it
\* fails only if no qualifying sequence is reachable through field maps.
C4_FirstRowList == Searched => res.v = FirstQualifying(PreorderThroughDicts(val.v))

\* a rejected sequence precedes the one that is returned
C4_Witness ==
  /\ Searched
  /\ res.v # None
  /\ \E i \in 1..Len(PreorderThroughDicts(val.v)) :
        LET w == PreorderThroughDicts(val.v)[i]
        IN  IsList(w) /\ ~Qualifies(w)

(***************************************************************************)
(* C7 -- markup decode merge rule                                          *)
(***************************************************************************)
RECURSIVE SubElems(_)
SubElems(e) == {e} \cup UNION {SubElems(e.children[i]) : i \in 1..Len(e.children)}

TagCount(e, tag) == Cardinality({i \in 1..Len(e.children) : e.children[i].tag = tag})

FirstAt(e, tag) == CHOOSE i \in 1..Len(e.children) :
                     /\ e.children[i].tag = tag
                     /\ \A j \in 1..(i - 1) : e.children[j].tag # tag

WithTag(e, tag) == LET T(c) == c.tag = tag IN SelectSeq(e.children, T)

\* the merge rule holds of element e and its decoded value d
MergeRule(e, d) ==
  /\ IsDict(d)
  /\ \A i, j \in 1..Len(d.kids) : d.kids[i].key = d.kids[j].key => i = j
  /\ {d.kids[i].key : i \in 1..Len(d.kids)} = {e.children[i].tag : i \in 1..Len(e.children)}
  /\ \A i, j \in 1..Len(d.kids) :
        i < j => FirstAt(e, d.kids[i].key) < FirstAt(e, d.kids[j].key)
  /\ \A i \in 1..Len(d.kids) :
        LET tag == d.kids[i].key
            same == WithTag(e, tag)
        IN  IF Len(same) = 1
            THEN d.kids[i].val = _element_to_data(same[1])
            ELSE d.kids[i].val = L(Items([n \in 1..Len(same) |-> _element_to_data(same[n])]))

Decoded == val.kind = "doc" /\ res.op = "decode"

\* the decoded value of the element reached from the root by the child
\* positions in path, read out of the decoded document
RECURSIVE DecodedAt(_, _, _)
DecodedAt(e, d, path) ==
  IF path = <<>> THEN d
  ELSE LET c == e.children[Head(path)]
           n == Cardinality({i \in 1..Head(path) : e.children[i].tag = c.tag})
           under == Get(d, c.tag)
       IN  DecodedAt(c, IF TagCount(e, c.tag) = 1 THEN under ELSE under.kids[n].val,
                     Tail(path))

RECURSIVE Paths(_)
Paths(e) ==
  {<<>>} \cup UNION {{<<i>> \o p : p \in Paths(e.children[i])} : i \in 1..Len(e.children)}

RECURSIVE ElemAt(_, _)
ElemAt(e, path) == IF path = <<>> THEN e ELSE ElemAt(e.children[Head(path)], Tail(path))

\* C7: every element with children decodes to a field map with one key per
\* distinct child tag, in first-occurrence order; a tag occurring once maps
\* to the child's value, a tag occurring k >= 2 times to the sequence of the
\* k child values in document order.
C7_MergeRule ==
  Decoded =>
    /\ res.v.kids[1].key = val.v.tag
    /\ \A path \in Paths(val.v) :
          ElemAt(val.v, path).children # <<>> =>
            MergeRule(ElemAt(val.v, path), DecodedAt(val.v, res.v.kids[1].val, path))

\* a tag occurs twice with another tag between the two occurrences
C7_Witness ==
  /\ Decoded
  /\ \E e \in SubElems(val.v) :
        \E i, j, n \in 1..Len(e.children) :
           /\ i < j /\ j < n
           /\ e.children[i].tag # e.children[j].tag
           /\ e.children[i].tag = e.children[n].tag
  /\ Len(res.v.kids[1].val.kids) = 2

(***************************************************************************)
(* C8 -- tabular encode field-name union                                   *)
(***************************************************************************)
Written == val.kind = "rows" /\ res.op = "write_csv"

\* position (row, key index) at which a field name is first seen
FirstSeen(rows, name) ==
  CHOOSE p \in (1..Len(rows)) \X (1..Cardinality(Keys)) :
    /\ p[2] <= Len(rows[p[1]].kids)
    /\ rows[p[1]].kids[p[2]].key = name
    /\ \A i \in 1..p[1] : \A j \in 1..Len(rows[i].kids) :
          rows[i].kids[j].key = name => (i = p[1] /\ j >= p[2])

Before(p, q) == p[1] < q[1] \/ (p[1] = q[1] /\ p[2] < q[2])

\* C8: the header is the de-duplicated union of the rows' field names in
\* first-seen order, followed by one record per row in input order, an
\* absent field written as the empty string.
C8_FieldUnion ==
  Written =>
    LET rows == val.v
        header == res.v[1]
    IN  /\ Len(res.v) = Len(rows) + 1
        /\ \A i, j \in 1..Len(header) : header[i] = header[j] => i = j
        /\ {header[j] : j \in 1..Len(header)}
             = UNION {{rows[i].kids[n].key : n \in 1..Len(rows[i].kids)} : i \in 1..Len(rows)}
        /\ \A i, j \in 1..Len(header) :
              i < j => Before(FirstSeen(rows, header[i]), FirstSeen(rows, header[j]))
        /\ \A i \in 1..Len(rows) :
              /\ Len(res.v[i + 1]) = Len(header)
              /\ \A j \in 1..Len(header) :
                    res.v[i + 1][j] = IF HasKey(rows[i], header[j])
                                      THEN CsvCell(Get(rows[i], header[j]))
                                      ELSE <<>>

\* rows [{b: x}, {a: x}]: disjoint keys, first-seen order differs from sorted
C8_Witness ==
  /\ Written
  /\ Len(val.v) = 2
  /\ KeysOf(val.v[1]) = << <<"b">> >>
  /\ KeysOf(val.v[2]) = << <<"a">> >>
  /\ val.v[1].kids[1].val = S(<<"x">>)
  /\ res.v = << <<(<<"b">>), (<<"a">>)>>, <<(<<"x">>), <<>> >>, << <<>>, CsvCell(val.v[2].kids[1].val)>> >>

(***************************************************************************)
(* Conversions of the pipeline                                             *)
(***************************************************************************)
Steps == 1..Len(hist)

Ran(n, conv) == n \in Steps /\ hist[n].conv = conv

\* a header of distinct field names and rows with one value per field
WellFormedCsv(content) ==
  /\ content.fmt = "csv"
  /\ content.body # <<>>
  /\ LET header == content.body[1]
     IN  /\ header # <<>>
         /\ \A i, j \in 1..Len(header) : header[i] = header[j] => i = j
         /\ \A n \in 2..Len(content.body) : Len(content.body[n]) = Len(header)

DataRows(content) == Len(content.body) - 1

CellsStripped(content) ==
  \A n \in 2..Len(content.body) : \A j \in 1..Len(content.body[n]) :
     Strip(content.body[n][j]) = content.body[n][j]

NoDot(t) == \A i \in 1..Len(t) : t[i] # "."

(***************************************************************************)
(* C2 -- tabular round trip                                                *)
(***************************************************************************)
\* C2: CSV-to-CSV conversion of a well-formed input with header H and
\* N >= 0 data rows outputs H followed by the same N rows.
C2_CsvRoundTrip ==
  \A n \in Steps :
     (Ran(n, "csv_to_csv") /\ WellFormedCsv(files[n - 1])) =>
        /\ hist[n].st = "ok"
        /\ files[n].fmt = "csv"
        /\ files[n].body = files[n - 1].body

(***************************************************************************)
(* C3 -- CSV -> markup -> CSV with an explicit row path                    *)
(***************************************************************************)
\* convert_csv_to_xml(R, E) on a well-formed CSV with N >= 1 rows, then
\* convert_xml_to_csv with row_path R.E
C3Case(n) ==
  /\ n \in Steps /\ n + 1 \in Steps
  /\ hist[n].conv = "csv_to_xml"
  /\ hist[n + 1].conv = "xml_to_csv"
  /\ hist[n + 1].opts.row_path = Dotted(hist[n].opts.root_element, hist[n].opts.row_element)
  /\ WellFormedCsv(files[n - 1])
  /\ DataRows(files[n - 1]) >= 1

C3Result(n) ==
  /\ hist[n].st = "ok"
  /\ hist[n + 1].st = "ok"
  /\ files[n].fmt = "xml"
  /\ files[n].body.tag = hist[n].opts.root_element
  /\ Len(files[n].body.children) = DataRows(files[n - 1])
  /\ files[n + 1].fmt = "csv"
  /\ files[n + 1].body = files[n - 1].body

\* C3 as stated: the round trip succeeds and returns the header and the
\* rows for every CSV input with N >= 1 rows.
C3_Original == \A n \in Steps : C3Case(n) => C3Result(n)

\* C3 amended: it does so when no cell value has leading or trailing
\* whitespace and the header fields, R and E are XML names, R and E
\* without a dot.
C3_CsvXmlCsv ==
  \A n \in Steps :
     ( /\ C3Case(n)
       /\ CellsStripped(files[n - 1])
       /\ \A j \in 1..Len(files[n - 1].body[1]) : IsName(files[n - 1].body[1][j])
       /\ IsName(hist[n].opts.root_element)
       /\ IsName(hist[n].opts.row_element)
       /\ NoDot(hist[n].opts.root_element)
       /\ NoDot(hist[n].opts.row_element) ) => C3Result(n)

\* exactly one row, two columns, through the explicit path
C3_Witness ==
  /\ C3Case(1)
  /\ CellsStripped(files[0])
  /\ NoDot(hist[1].opts.row_element)
  /\ DataRows(files[0]) = 1
  /\ Len(files[0].body[1]) = 2
  /\ C3Result(1)

(***************************************************************************)
(* C5 -- markup encode input shape                                         *)
(***************************************************************************)
\* C5: for every payload other than a field map with exactly one entry the
\* encoder fails with the single-root error and no markup is written.
C5_InvalidShape ==
  \A n \in Steps :
     ( /\ Ran(n, "json_to_xml")
       /\ files[n - 1].fmt = "json"
       /\ ~SingleRoot(files[n - 1].body) ) =>
        /\ hist[n].st = "ValueError: single root"
        /\ files[n].fmt # "xml"

(***************************************************************************)
(* C6 -- explicit-path row extraction is all-or-nothing                    *)
(***************************************************************************)
\* what the dotted path resolves to in the decoded document
Resolved(n) ==
  FollowParts(_xml_to_dict(files[n - 1]).v, Split(hist[n].opts.row_path), 1)

C6Case(n) ==
  /\ Ran(n, "xml_to_csv")
  /\ hist[n].opts.row_path # <<>>
  /\ files[n - 1].fmt = "xml"

MixedList(v) == IsList(v) /\ \E i \in 1..Len(v.kids) : ~IsDict(v.kids[i].val)

\* C6: when the path resolves to a sequence with an item that is not a
\* field map the conversion fails with the row extraction error and writes
\* no rows; when it succeeds every row is a field map and each is written.
C6_AllOrNothing ==
  \A n \in Steps :
     C6Case(n) =>
        /\ MixedList(Resolved(n)) =>
              /\ hist[n].st = "ValueError: rows not found"
              /\ files[n].fmt # "csv"
        /\ hist[n].st = "ok" =>
              LET rows == IF IsList(Resolved(n)) THEN Resolved(n).kids
                          ELSE <<Entry(NoKey, Resolved(n))>>
              IN  /\ \A i \in 1..Len(rows) : IsDict(rows[i].val)
                  /\ files[n].fmt = "csv"
                  /\ Len(files[n].body) = Len(rows) + 1

\* the sequence starts with a valid row and holds an invalid item
C6_Witness ==
  /\ C6Case(1)
  /\ MixedList(Resolved(1))
  /\ IsDict(Resolved(1).kids[1].val)
  /\ hist[1].st = "ValueError: rows not found"

(***************************************************************************)
(* C9 -- same-format conversions                                           *)
(***************************************************************************)
SameFormat(n, fmt) ==
  /\ files[n - 1].fmt = fmt
  /\ files[n].fmt = fmt
  /\ files[n].body = files[n - 1].body

Routed == hist # <<>> /\ SourceFormat(args) # "" /\ TargetFormat(args) # ""

\* the format a converter's output is written in
WrittenFormat(conv) ==
  CASE conv \in {"csv_to_json", "json_to_json", "xml_to_json"} -> "json"
    [] conv \in {"csv_to_xml", "json_to_xml"} -> "xml"
    [] conv \in {"csv_to_csv", "json_to_csv", "xml_to_csv"} -> "csv"
    [] OTHER -> "any"

\* C10: each of the 9 pairs over {csv, json, xml} runs the converter of
\* exactly that pair; any other pair fails with the unsupported-conversion
\* error, runs no converter and leaves the files alone.
C10_RouterTotal ==
  [][ (hist = <<>> /\ hist' # <<>>) =>
        LET source_format == SourceFormat(args)
            target_format == TargetFormat(args)
        IN  (source_format # "" /\ target_format # "") =>
              IF source_format \in FORMATS /\ target_format \in FORMATS
              THEN /\ hist'[1].conv = source_format \o "_to_" \o target_format
                   /\ (hist'[1].st = "ok" /\ WrittenFormat(hist'[1].conv) # "any") =>
                         files'[args.output].fmt = target_format
              ELSE /\ hist'[1].conv = "none"
                   /\ hist'[1].st = "ValueError: unsupported conversion"
                   /\ files' = files ]_vars

\* a pair outside the closed set was refused
C10_Witness ==
  /\ Routed
  /\ SourceFormat(args) = "yaml"
  /\ TargetFormat(args) = "json"
  /\ hist[1].st = "ValueError: unsupported conversion"

(***************************************************************************)
(* The differ: json_tools/json_ops.py                                      *)
(***************************************************************************)
MaxFiles == 3

\* code points of the characters keys are made of
Ord(c) ==
  CASE c = "1" -> 49
    [] c = "a" -> 97
    [] c = "b" -> 98
    [] c = "r" -> 114
    [] c = "x" -> 120
    [] c = "y" -> 121
    [] OTHER -> 32

\* str < str
RECURSIVE StrLess(_, _)
StrLess(s, t) ==
  IF t = <<>> THEN FALSE
  ELSE IF s = <<>> THEN TRUE
  ELSE IF s[1] # t[1] THEN Ord(s[1]) < Ord(t[1])
  ELSE StrLess(Tail(s), Tail(t))

RECURSIVE InsertByKey(_, _)
InsertByKey(entries, e) ==
  IF entries = <<>> THEN <<e>>
  ELSE IF StrLess(e.key, entries[1].key) THEN <<e>> \o entries
  ELSE <<entries[1]>> \o InsertByKey(Tail(entries), e)

\* sorted(dct.items())
RECURSIVE SortedItems(_)
SortedItems(entries) ==
  IF entries = <<>> THEN <<>>
  ELSE InsertByKey(SortedItems(Tail(entries)), Head(entries))

Pad(level) == [i \in 1..(2 * level) |-> " "]

RECURSIVE Concat(_)
Concat(seqs) == IF seqs = <<>> THEN <<>> ELSE Head(seqs) \o Concat(Tail(seqs))

Prefixed(prefix, lines) == <<prefix \o lines[1]>> \o Tail(lines)

WithComma(lines, more) ==
  IF more THEN [lines EXCEPT ![Len(lines)] = @ \o <<",">>] ELSE lines

\* json.dumps(value, indent=2, sort_keys=True).splitlines(); the first line
\* comes without its indentation, which the caller puts before it
RECURSIVE DumpLines(_, _)
DumpLines(v, level) ==
  IF v.k = "S" THEN << <<"\"">> \o v.text \o <<"\"">> >>
  ELSE IF v.k = "N" THEN << <<"n", "u", "l", "l">> >>
  ELSE IF v.kids = <<>> THEN << IF v.k = "L" THEN <<"[", "]">> ELSE <<"{", "}">> >>
  ELSE IF v.k = "L"
  THEN << <<"[">> >>
       \o Concat([i \in 1..Len(v.kids) |->
                    WithComma(Prefixed(Pad(level + 1), DumpLines(v.kids[i].val, level + 1)),
                              i < Len(v.kids))])
       \o << Pad(level) \o <<"]">> >>
  ELSE LET items == SortedItems(v.kids)
       IN  << <<"{">> >>
           \o Concat([i \in 1..Len(items) |->
                        WithComma(Prefixed(Pad(level + 1) \o <<"\"">> \o items[i].key
                                             \o <<"\"", ":", " ">>,
                                           DumpLines(items[i].val, level + 1)),
                                  i < Len(items))])
           \o << Pad(level) \o <<"}">> >>

\* one line of compare_json_files' result
Line(kind, a, b, text) == [kind |-> kind, a |-> a, b |-> b, text |-> text]

RECURSIVE CommonPrefix(_, _)
CommonPrefix(a, b) ==
  IF a = <<>> \/ b = <<>> \/ a[1] # b[1] THEN 0 ELSE 1 + CommonPrefix(Tail(a), Tail(b))

Reverse(a) == [i \in 1..Len(a) |-> a[Len(a) + 1 - i]]

Min(m, n) == IF m < n THEN m ELSE n

\* lines of context around a change
Context == 3

\* difflib.unified_diff(a, b, fromfile, tofile): nothing for equal inputs;
\* otherwise the two file headers and a hunk. The changed block between the
\* common prefix and the common suffix is written as one hunk.
unified_diff(a, b, fromfile, tofile) ==
  IF a = b THEN <<>>
  ELSE LET pre == CommonPrefix(a, b)
           suf == Min(CommonPrefix(Reverse(a), Reverse(b)), Min(Len(a), Len(b)) - pre)
           lead == Min(pre, Context)
           trail == Min(suf, Context)
       IN  <<Line("---", fromfile, tofile, <<>>), Line("+++", fromfile, tofile, <<>>),
             Line("@@", fromfile, tofile, <<>>)>>
           \o [i \in 1..lead |-> Line(" ", fromfile, tofile, a[pre - lead + i])]
           \o [i \in 1..(Len(a) - pre - suf) |-> Line("-", fromfile, tofile, a[pre + i])]
           \o [i \in 1..(Len(b) - pre - suf) |-> Line("+", fromfile, tofile, b[pre + i])]
           \o [i \in 1..trail |-> Line(" ", fromfile, tofile, a[Len(a) - suf + i])]

\* payloads = [_read_json(path) for path in file_paths]: the files are read
\* in order, the first failure ends the reading; log lists the paths read
RECURSIVE ReadPayloads(_, _, _, _, _)
ReadPayloads(fs, file_paths, i, payloads, log) ==
  IF i > Len(file_paths) THEN [st |-> "ok", v |-> payloads, log |-> log]
  ELSE LET r == json_ops_read_json(fs, file_paths[i])
       IN  IF r.st # "ok"
           THEN [st |-> r.st, v |-> <<>>, log |-> Append(log, file_paths[i])]
           ELSE ReadPayloads(fs, file_paths, i + 1, Append(payloads, r.v),
                             Append(log, file_paths[i]))

\* Mutation of DiffPairs: every file is compared with the first one.
RECURSIVE DiffPairs_FromFirst(_, _, _, _)
DiffPairs_FromFirst(file_paths, rendered, index, diffs) ==
  IF index > Len(rendered) - 1 THEN diffs
  ELSE LET file_a == file_paths[1]
           file_b == file_paths[index + 1]
           diff_lines == unified_diff(rendered[1], rendered[index + 1], file_a, file_b)
       IN  DiffPairs_FromFirst(file_paths, rendered, index + 1,
                               IF diff_lines # <<>> THEN diffs \o diff_lines
                               ELSE Append(diffs, Line("same", file_a, file_b, <<>>)))

\* for index in range(len(rendered) - 1)
RECURSIVE DiffPairs(_, _, _, _)
DiffPairs(file_paths, rendered, index, diffs) ==
  IF index > Len(rendered) - 1 THEN diffs
  ELSE LET file_a == file_paths[index]
           file_b == file_paths[index + 1]
           diff_lines == unified_diff(rendered[index], rendered[index + 1], file_a, file_b)
       IN  DiffPairs(file_paths, rendered, index + 1,
                     IF diff_lines # <<>> THEN diffs \o diff_lines
                     ELSE Append(diffs, Line("same", file_a, file_b, <<>>)))

\* Mutation of compare_json_files: the files are read before the number of
\* paths is checked.
compare_json_files_ReadFirst(fs, file_paths) ==
  LET payloads == ReadPayloads(fs, file_paths, 1, <<>>, <<>>)
  IN  IF payloads.st # "ok" THEN payloads
      ELSE IF Len(file_paths) < 2
      THEN [st |-> "ValueError: at least two files", v |-> <<>>, log |-> payloads.log]
      ELSE LET rendered == [i \in 1..Len(payloads.v) |-> DumpLines(payloads.v[i], 0)]
           IN  [st |-> "ok", v |-> DiffPairs(file_paths, rendered, 1, <<>>),
                log |-> payloads.log]

compare_json_files(fs, file_paths) ==
  IF Len(file_paths) < 2
  THEN [st |-> "ValueError: at least two files", v |-> <<>>, log |-> <<>>]
  ELSE LET payloads == ReadPayloads(fs, file_paths, 1, <<>>, <<>>)
       IN  IF payloads.st # "ok" THEN payloads
           ELSE LET rendered == [i \in 1..Len(payloads.v) |-> DumpLines(payloads.v[i], 0)]
                IN  [st |-> "ok", v |-> DiffPairs(file_paths, rendered, 1, <<>>),
                     log |-> payloads.log]

(***************************************************************************)
(* Differ specification: one call of compare_json_files; hist is the list  *)
(* of the paths it has read                                                *)
(***************************************************************************)
DiffDocs ==
  {Absent, Malformed,
   JsonText(S(<<"x">>)),
   JsonText(L(Items(<<S(<<"x">>), S(<<"y">>)>>))),
   JsonText(F(<<Entry(<<"a">>, S(<<"x">>)), Entry(<<"b">>, S(<<"y">>))>>)),
   JsonText(F(<<Entry(<<"b">>, S(<<"y">>)), Entry(<<"a">>, S(<<"x">>))>>)),
   JsonText(F(<<Entry(<<"a">>, S(<<"x">>)), Entry(<<"b">>, S(<<"x">>))>>)),
   JsonText(F(<<Entry(<<"b">>, F(<<Entry(<<"b">>, None), Entry(<<"a">>, None)>>))>>))}

InitDiff ==
  /\ \E n \in 0..MaxFiles :
       /\ files \in [1..n -> DiffDocs]
       /\ args = [i \in 1..n |-> i]
  /\ hist = <<>>
  /\ val = <<>>
  /\ res = NoRes

CompareJsonFiles ==
  /\ res.op = "none"
  /\ LET r == compare_json_files(files, args)
     IN  /\ res' = Applied("compare", r)
         /\ hist' = r.log
  /\ UNCHANGED <<files, args, val>>

NextDiff == CompareJsonFiles

SpecDiff == InitDiff /\ [][NextDiff]_vars

(***************************************************************************)
(* C11 -- the differ compares the adjacent pairs                           *)
(***************************************************************************)
Compared == res.op = "compare" /\ res.st = "ok"

\* the canonical text of the file at a path
Canonical(path) == DumpLines(files[path].body, 0)

\* the lines that open a pair's part of the result
RECURSIVE Openers(_)
Openers(lines) ==
  IF lines = <<>> THEN <<>>
  ELSE IF Head(lines).kind \in {"same", "---"}
  THEN <<Head(lines)>> \o Openers(Tail(lines))
  ELSE Openers(Tail(lines))

\* the part of the result written for the pair (a, b)
RECURSIVE PartOf(_, _, _)
PartOf(lines, a, b) ==
  IF lines = <<>> THEN <<>>
  ELSE IF Head(lines).a = a /\ Head(lines).b = b
  THEN <<Head(lines)>> \o PartOf(Tail(lines), a, b)
  ELSE PartOf(Tail(lines), a, b)

\* C11: for N >= 2 readable documents the result holds, in input order, one
\* part for each of the N-1 adjacent pairs and for no other pair; a pair of
\* equal canonical texts gives exactly one "no differences" line, a pair of
\* different canonical texts gives a diff with a hunk marker.
C11_PairwiseChain ==
  Compared =>
    /\ Len(args) >= 2
    /\ LET opened == Openers(res.v)
       IN  /\ Len(opened) = Len(args) - 1
           /\ \A i \in 1..Len(opened) : opened[i].a = args[i] /\ opened[i].b = args[i + 1]
    /\ \A i \in 1..Len(res.v) : \E j \in 1..(Len(args) - 1) :
          res.v[i].a = args[j] /\ res.v[i].b = args[j + 1]
    /\ \A j \in 1..(Len(args) - 1) :
          LET part == PartOf(res.v, args[j], args[j + 1])
          IN  IF Canonical(args[j]) = Canonical(args[j + 1])
              THEN part = <<Line("same", args[j], args[j + 1], <<>>)>>
              ELSE /\ part # <<>>
                   /\ \A i \in 1..Len(part) : part[i].kind # "same"
                   /\ \E i \in 1..Len(part) : part[i].kind = "@@"

\* three documents: the first two differ only in key order, the third has
\* another value; the first and the third would differ as well
C11_Witness ==
  /\ Compared
  /\ Len(args) = 3
  /\ files[1].body # files[2].body
  /\ Canonical(1) = Canonical(2)
  /\ Canonical(2) # Canonical(3)
  /\ res.v[1].kind = "same"
  /\ res.v[2].kind = "---"

(***************************************************************************)
(* C12 -- the differ checks its arguments before it reads                  *)
(***************************************************************************)
\* C12: called with fewer than 2 paths the differ fails with the argument
\* error, has read no file and returns no diff line.
C12_ArgumentsFirst ==
  (res.op = "compare" /\ Len(args) < 2) =>
     /\ res.st = "ValueError: at least two files"
     /\ hist = <<>>
     /\ res.v = <<>>

\* one path, which names a file that could have been read
C12_Witness ==
  /\ res.op = "compare"
  /\ Len(args) = 1
  /\ files[1].fmt = "json"
  /\ res.st = "ValueError: at least two files"
  /\ hist = <<>>

(***************************************************************************)
(* The command line: main() of json_tools/__main__.py                      *)
(* A path is a number, 0 stands for an option that was not given.          *)
(***************************************************************************)
LogText(lines) == [fmt |-> "log", body |-> lines]

\* logging.FileHandler(logfile): the log file is opened for appending
setup_logging(fs, logfile) ==
  IF logfile = 0 THEN fs
  ELSE IF is_file(fs, logfile) THEN fs
  ELSE write_text(fs, logfile, LogText(<<>>))

\* logging.info / logging.critical through the file handler
LogTo(fs, logfile, lines) ==
  IF logfile = 0 THEN fs
  ELSE write_text(fs, logfile, LogText(fs[logfile].body \o lines))

DiffText(diffs) == [fmt |-> "diff", body |-> diffs]

\* the result of a mode: status, files, input paths read, log lines, lines
\* printed
Outcome(st, fs, reads, logged, printed) ==
  [st |-> st, fs |-> fs, reads |-> reads, logged |-> logged, printed |-> printed]

_emit_diffs(fs, diffs, destination, reads, logged) ==
  IF destination # 0
  THEN Outcome("ok", write_text(fs, destination, DiffText(diffs)), reads,
               Append(logged, "Diff written"), <<>>)
  ELSE Outcome("ok", fs, reads, logged, diffs)

SHORTCUT_FLAGS ==
  <<[flag |-> "csv_to_json", src |-> "csv", dst |-> "json"],
    [flag |-> "json_to_csv", src |-> "json", dst |-> "csv"],
    [flag |-> "json_to_xml", src |-> "json", dst |-> "xml"],
    [flag |-> "xml_to_json", src |-> "xml", dst |-> "json"],
    [flag |-> "csv_to_xml", src |-> "csv", dst |-> "xml"],
    [flag |-> "xml_to_csv", src |-> "xml", dst |-> "csv"]>>

\* the positions in SHORTCUT_FLAGS of the flags that are set
Active(a) == {i \in 1..Len(SHORTCUT_FLAGS) : SHORTCUT_FLAGS[i].flag \in a.shortcuts}

_apply_shortcuts(a) ==
  IF Cardinality(Active(a)) > 1 THEN Raise("ValueError: one shortcut at a time")
  ELSE IF Active(a) # {}
  THEN LET i == CHOOSE i \in Active(a) : TRUE
       IN  [st |-> "ok",
            v |-> [a EXCEPT !.source_format = SHORTCUT_FLAGS[i].src,
                            !.target_format = SHORTCUT_FLAGS[i].dst]]
  ELSE [st |-> "ok", v |-> a]

_require_path(path) == path # 0

\* Mutation of _validate_mode: any combination of modes is accepted.
_validate_mode_Lenient(a) == TRUE

\* TRUE when the mode selection is accepted
_validate_mode(a) ==
  LET modes_selected == (IF a.compare # <<>> THEN 1 ELSE 0) + (IF a.pretty THEN 1 ELSE 0)
  IN  ~(modes_selected > 1)

\* diffs = compare_json_files(args.compare); _emit_diffs(diffs, args.output)
Emitted(fs, a, r) ==
  IF r.st # "ok" THEN Outcome(r.st, fs, r.log, <<>>, <<>>)
  ELSE _emit_diffs(fs, r.v, a.output, r.log,
                   [i \in 1..(Len(a.compare) - 1) |-> "Comparing"])

\* what pretty_print_json has done
Formatted(a, done) ==
  Outcome(done.st, done.fs, <<a.input>>,
          IF done.st = "ok" THEN <<"Formatted">> ELSE <<>>, <<>>)

\* what _handle_convert has done
Converted(a, called) ==
  Outcome(called.st, called.fs,
          IF called.conv = "none" THEN <<>> ELSE <<a.input>>,
          IF called.st = "ok" THEN <<"Converted">> ELSE <<>>, <<>>)

\* _apply_shortcuts(args), the two _require_path calls, _handle_convert(args)
ConvertMode(fs, a, applied) ==
  IF applied.st # "ok" THEN Outcome(applied.st, fs, <<>>, <<>>, <<>>)
  ELSE IF ~_require_path(a.input)
  THEN Outcome("ValueError: --input is required", fs, <<>>, <<>>, <<>>)
  ELSE IF ~_require_path(a.output)
  THEN Outcome("ValueError: --output is required", fs, <<>>, <<>>, <<>>)
  ELSE Converted(a, _handle_convert(fs, applied.v))

\* the if / elif / else of main(): the modes entered, and what the mode did
RunMode(fs, a) ==
  IF ~_validate_mode(a)
  THEN [modes |-> <<>>, out |-> Outcome("ValueError: one mode at a time", fs, <<>>, <<>>, <<>>)]
  ELSE IF a.compare # <<>>
  THEN [modes |-> <<"compare">>, out |-> Emitted(fs, a, compare_json_files(fs, a.compare))]
  ELSE IF a.pretty
  THEN [modes |-> <<"pretty">>,
        out |-> IF ~_require_path(a.input)
                THEN Outcome("ValueError: --input is required", fs, <<>>, <<>>, <<>>)
                ELSE IF ~_require_path(a.output)
                THEN Outcome("ValueError: --output is required", fs, <<>>, <<>>, <<>>)
                ELSE Formatted(a, pretty_print_json(fs, a.input, a.output))]
  ELSE [modes |-> <<"convert">>, out |-> ConvertMode(fs, a, _apply_shortcuts(a))]

\* the except clauses and the return of main()
Exit(a, run) ==
  [exit |-> IF run.out.st # "ok" THEN 1 ELSE 0,
   st |-> run.out.st,
   modes |-> run.modes,
   reads |-> run.out.reads,
   fs |-> LogTo(run.out.fs, a.logfile,
                run.out.logged \o (IF run.out.st # "ok" THEN <<"Error">> ELSE <<>>))]

\* main(): the exit status, with the files and the record of what ran
main(fs, a) == Exit(a, RunMode(setup_logging(fs, a.logfile), a))

(***************************************************************************)
(* Command line specification: one run of main(). Files 1 and 2 are the    *)
(* inputs, 3 the output and 4 the log file; hist lists the modes that ran, *)
(* val the input paths that were read.                                     *)
(***************************************************************************)
InputPath == 1

OtherPath == 2

OutputPath == 3

LogPath == 4

MainTexts == {Absent, Malformed, JsonText(Root(S(<<"x">>))), JsonText(S(<<"x">>))}

InitMain ==
  /\ \E first \in MainTexts, second \in {Malformed, JsonText(Root(S(<<"x">>)))},
        stale \in {Absent, Malformed} :
       files = <<first, second, stale, Absent>>
  /\ args \in [compare : {<<>>, <<InputPath>>, <<InputPath, OtherPath>>},
               pretty : BOOLEAN,
               input : {0, InputPath}, output : {0, OutputPath}, logfile : {0, LogPath},
               shortcuts : {{}, {"json_to_xml"}, {"json_to_xml", "xml_to_json"}},
               input_suffix : {".json"}, output_suffix : {".json", ".txt"},
               source_format : {"", "json"}, target_format : {"", "json", "xml"},
               root_element : {RootTag}, row_element : {<<"a">>}, row_path : {<<>>}]
  /\ hist = <<>>
  /\ val = <<>>
  /\ res = NoRes

Returned(r) ==
  /\ files' = r.fs
  /\ hist' = r.modes
  /\ val' = r.reads
  /\ res' = [op |-> "main", st |-> r.st, v |-> r.exit]

Main ==
  /\ res.op = "none"
  /\ Returned(main(files, args))
  /\ UNCHANGED args

NextMain == Main

SpecMain == InitMain /\ [][NextMain]_vars

(***************************************************************************)
(* C13 -- one mode per invocation                                          *)
(***************************************************************************)
BothModes == args.compare # <<>> /\ args.pretty

\* C13 as stated: at most one mode runs, and with both --compare and
\* --pretty the invocation exits with status 1 before a mode runs and
\* before any file is read or written.
C13_Original ==
  [][ res.op = "none" =>
        /\ Len(hist') <= 1
        /\ BothModes => /\ res'.v = 1
                        /\ hist' = <<>>
                        /\ val' = <<>>
                        /\ files' = files ]_vars

\* C13 amended: ... before any input or output file is read or written;
\* the log file named by --logfile is opened before the validation and
\* receives the error message.
C13_OneMode ==
  [][ res.op = "none" =>
        /\ Len(hist') <= 1
        /\ BothModes => /\ res'.v = 1
                        /\ res'.st = "ValueError: one mode at a time"
                        /\ hist' = <<>>
                        /\ val' = <<>>
                        /\ \A path \in DOMAIN files :
                              path # args.logfile => files'[path] = files[path]
                        /\ args.logfile # 0 => files'[args.logfile] = LogText(<<"Error">>) ]_vars

\* both modes were selected over readable files, with an output and a log
\* file: the run was rejected
C13_Witness ==
  /\ res.op = "main"
  /\ BothModes
  /\ Len(args.compare) = 2
  /\ args.input # 0 /\ args.output # 0 /\ args.logfile # 0
  /\ files[InputPath].fmt = "json" /\ files[OtherPath].fmt = "json"
  /\ res.v = 1
  /\ hist = <<>>
  /\ files[OutputPath].fmt = "absent"

(***************************************************************************)
(* C14 -- decoded values are fixed points of encode then decode            *)
(***************************************************************************)
\* the value the document val decodes to
DecodedDoc == _xml_to_dict(XmlText(val.v)).v

Redecoded == val.kind = "doc" /\ res.op = "redecode"

\* what the claim says of every decoded value
DecodedShape(d) ==
  /\ SingleRoot(d)
  /\ NoEmptyDict(d)
  /\ SeqsAtLeastTwo(d)
  /\ NoSeqInSeq(d)

\* C14 as stated: every value decoded from a document is returned
\* unchanged by encode followed by decode, and has a single root, no empty
\* field map, no sequence shorter than 2 items and no sequence directly
\* inside a sequence.
C14_Original ==
  Redecoded => /\ DecodedShape(DecodedDoc)
               /\ res.st = "ok"
               /\ res.v = DecodedDoc

\* C14 amended: it is, unless a text of the decoded value holds a carriage
\* return; the shape holds of every decoded value.
C14_FixedPoint ==
  Redecoded => /\ DecodedShape(DecodedDoc)
               /\ NoCarriageReturn(DecodedDoc) => (res.st = "ok" /\ res.v = DecodedDoc)

\* a document with a repeated tag whose occurrences decode to a field map
\* and a text
C14_Witness ==
  /\ Redecoded
  /\ NoCarriageReturn(DecodedDoc)
  /\ \E w \in Sub(DecodedDoc) :
        /\ IsList(w)
        /\ \E i \in 1..Len(w.kids) : IsDict(w.kids[i].val)
        /\ \E i \in 1..Len(w.kids) : w.kids[i].val.k = "S"
  /\ res.st = "ok"
  /\ res.v = DecodedDoc

(***************************************************************************)
(* C15 -- a failed operation leaves the output file alone                  *)
(***************************************************************************)
Failed(n) == n \in Steps /\ hist[n].st # "ok"

\* C15: a conversion or a pretty-print that fails (input missing or not
\* parsed, wrong shape, no rows found) leaves every file, the output file
\* included, as it was.
C15_NoOutputOnFailure ==
  [][ (Len(hist') = Len(hist) + 1 /\ hist'[Len(hist')].st # "ok") => files' = files ]_vars

\* the second call finds no rows in the markup the first one wrote, and
\* the file at its output path is the one that was there before
C15_Witness ==
  /\ Ran(1, "json_to_xml") /\ ~Failed(1)
  /\ Ran(2, "xml_to_csv") /\ Failed(2)
  /\ hist[2].st = "ValueError: rows not found"
  /\ files[2] = Malformed

====
